---- MODULE Spec2Model ----
(***************************************************************************)
(* A model of three parts of cvxpy:                                        *)
(*   - atoms/elementwise/max_elemwise.py : sign rule, DCP contract and     *)
(*     graph-level reduction of the elementwise maximum;                   *)
(*   - expressions/leaf.py : construction of a leaf, bounds assignment,    *)
(*     projection onto the attribute domain, validation of values;         *)
(*   - utilities/linalg.py : tolerance-based PSD certification.            *)
(* Each part has its own next-state relation and specification; the        *)
(* variables of the other parts stay at their initial values.              *)
(***************************************************************************)
EXTENDS Integers, Sequences, FiniteSets, TLC

VARIABLES
    node,       \* the max_elemwise expression under analysis (its args), or None
    sgn,        \* last result of sign_from_args, or None
    red,        \* last result of graph_implementation, or None
    next_id,    \* lu.create_var's counter of fresh variable ids
    cert,       \* the curvature certified for the node by the composition rule, or None
    leaf,       \* the constructed Leaf (shape, attributes), or None
    value,      \* Leaf._value
    bounds,     \* Leaf._bounds
    err,        \* the exception raised by the last leaf operation, or "none"
    op,         \* the name of the last leaf operation
    arg,        \* the input of the last leaf operation, where a claim needs it
    psd,        \* the run of is_psd_within_tol: its inputs, position and outcome
    onb         \* the run of onb_for_orthogonal_complement: input, position, outcome

None == [none |-> TRUE]

----------------------------------------------------------------------------
(* max_elemwise                                                            *)

\* Largest number of arguments of a modelled max_elemwise node.
MaxArgs == 3
\* Length of the non-scalar argument/output size (rows of a column vector).
VecLen == 3
\* Number of reductions (fresh variables) in one behaviour.
MaxVars == 2

\* The curvature of an argument; "convex" and "concave" are the strict ones
\* (not affine), "unknown" is neither convex nor concave.
Curvatures == {"affine", "convex", "concave", "unknown"}
\* The four signs of an argument: (is_positive(), is_negative()).
Signs == [pos : BOOLEAN, neg : BOOLEAN]
ScalarSize == <<1, 1>>
VecSize == <<VecLen, 1>>

\* An argument expression: its curvature, its sign, and whether it is a scalar
\* (size (1,1)) or has the full size.
ArgExprs == [curv : Curvatures, sign : Signs, scalar : BOOLEAN]

\* Elementwise atoms take the size of their non-scalar arguments.
size_from_args(args) ==
    IF \A i \in 1..Len(args) : args[i].scalar THEN ScalarSize ELSE VecSize

\* Variant: positive only when every argument is positive.
sign_from_args_all(args) ==
    LET is_pos == \A i \in 1..Len(args) : args[i].sign.pos
        is_neg == \A i \in 1..Len(args) : args[i].sign.neg
    IN  <<is_pos, is_neg>>

sign_from_args(args) ==
    LET is_pos == \E i \in 1..Len(args) : args[i].sign.pos
        is_neg == \A i \in 1..Len(args) : args[i].sign.neg
    IN  <<is_pos, is_neg>>

is_atom_convex == TRUE
is_atom_concave == FALSE
is_incr(idx) == TRUE
\* Variant: the atom is declared non-increasing in every argument as well.
is_decr_too(idx) == TRUE
is_decr(idx) == FALSE

arg_is_convex(a) == a.curv \in {"affine", "convex"}
arg_is_concave(a) == a.curv \in {"affine", "concave"}
arg_is_affine(a) == a.curv = "affine"

\* The DCP composition rule for convexity.
is_convex(args) ==
    \A i \in 1..Len(args) :
        \/ arg_is_affine(args[i])
        \/ is_atom_convex /\ arg_is_convex(args[i]) /\ is_incr(i)
        \/ is_atom_convex /\ arg_is_concave(args[i]) /\ is_decr(i)

\* The DCP composition rule for concavity: the same with convex and concave
\* swapped.
is_concave(args) ==
    \A i \in 1..Len(args) :
        \/ arg_is_affine(args[i])
        \/ is_atom_concave /\ arg_is_concave(args[i]) /\ is_incr(i)
        \/ is_atom_concave /\ arg_is_convex(args[i]) /\ is_decr(i)

\* The reduced form of argument i: an affine primitive of the argument's size.
arg_obj(args, i) ==
    [type |-> "arg", data |-> i,
     size |-> IF args[i].scalar THEN ScalarSize ELSE VecSize]

arg_objs_of(args) == [i \in 1..Len(args) |-> arg_obj(args, i)]

\* lu.create_var(size): a variable primitive with a fresh id.
create_var(size, id) == [type |-> "variable", data |-> id, size |-> size]

\* Elementwise._promote(obj, size): broadcast obj when its size differs.
promote(obj, size) ==
    IF obj.size # size
    THEN [type |-> "promote", data |-> obj, size |-> size]
    ELSE obj

\* lu.create_leq(lh, rh)
create_leq(lh, rh) == [type |-> "leq", lh |-> lh, rh |-> rh]

\* Variant: the auxiliary variable is created inside the loop.
graph_implementation_var_per_arg(arg_objs, size, id) ==
    LET constraints ==
            [i \in 1..Len(arg_objs) |->
                create_leq(promote(arg_objs[i], size), create_var(size, id + i - 1))]
    IN  [ok |-> TRUE, t |-> create_var(size, id), constraints |-> constraints]

graph_implementation(arg_objs, size, id) ==
    LET t == create_var(size, id)
        constraints ==
            [i \in 1..Len(arg_objs) |-> create_leq(promote(arg_objs[i], size), t)]
    IN  [ok |-> TRUE, t |-> t, constraints |-> constraints]

\* A reduction that refused its node.
NotDcp == [ok |-> FALSE]

varsMax == <<node, sgn, red, next_id, cert>>

InitMax ==
    /\ node = None
    /\ sgn = None
    /\ red = None
    /\ next_id = 0
    /\ cert = None

\* max_elemwise(arg1, arg2, *args): at least two arguments.
MaxConstruct ==
    /\ node = None
    /\ \E k \in 2..MaxArgs : \E args \in [1..k -> ArgExprs] : node' = args
    /\ sgn' = None
    /\ red' = None
    /\ next_id' = 0
    /\ cert' = None

MaxSign ==
    /\ node # None
    /\ sgn' = sign_from_args(node)
    /\ UNCHANGED <<node, red, next_id, cert>>

\* The curvature analysis of the node: the composition rule applied to the
\* atom's contract and the curvatures of the arguments.
MaxCertify ==
    /\ node # None
    /\ cert' = [convex |-> is_convex(node), concave |-> is_concave(node)]
    /\ UNCHANGED <<node, sgn, red, next_id>>

\* Variant: the reduction looks at the node's certification and refuses.
MaxReduceChecked ==
    /\ node # None
    /\ next_id < MaxVars
    /\ red' = IF is_convex(node)
              THEN graph_implementation(arg_objs_of(node), size_from_args(node), next_id)
              ELSE NotDcp
    /\ next_id' = next_id + 1
    /\ UNCHANGED <<node, sgn, cert>>

\* One call of graph_implementation on the node's reduced arguments.
MaxReduce ==
    /\ node # None
    /\ next_id < MaxVars
    /\ red' = graph_implementation(arg_objs_of(node), size_from_args(node), next_id)
    /\ next_id' = next_id + 1
    /\ UNCHANGED <<node, sgn, cert>>


----------------------------------------------------------------------------
(* Leaf: numbers                                                           *)

(* A number is a fixed-point complex value (re, im), counted in quanta, or *)
(* one of +inf, -inf, NaN.  The projection tolerances are given in quanta; *)
(* 1.0 is ONE quanta.  Only their order matters to project and validate:   *)
(* 0 < GENERAL_PROJECTION_TOL < PSD_NSD_PROJECTION_TOL < ONE / 2.          *)
GENERAL_PROJECTION_TOL == 1
PSD_NSD_PROJECTION_TOL == 2
SPARSE_PROJECTION_TOL == 1
ONE == 8 * GENERAL_PROJECTION_TOL

Fin(r, i) == [t |-> "fin", re |-> r, im |-> i]
PInf == [t |-> "pinf", re |-> 0, im |-> 0]
NInf == [t |-> "ninf", re |-> 0, im |-> 0]
NaN == [t |-> "nan", re |-> 0, im |-> 0]
Zero == Fin(0, 0)

IsFin(x) == x.t = "fin"
IsNan(x) == x.t = "nan"

Min(a, b) == IF a <= b THEN a ELSE b
Max(a, b) == IF a >= b THEN a ELSE b
Abs(a) == IF a >= 0 THEN a ELSE -a

\* np.real
np_real(x) == IF IsFin(x) THEN Fin(x.re, 0) ELSE x

\* np.imag(x) * 1j
np_imag_j(x) == IF IsFin(x) THEN Fin(0, x.im) ELSE Zero

\* np.conj
np_conj(x) == IF IsFin(x) THEN Fin(x.re, -x.im) ELSE x

\* 0 * x
zero_times(x) == IF IsFin(x) THEN Zero ELSE NaN

\* np.minimum(x, 0.) and np.maximum(x, 0.) of a real number; NaN propagates.
np_minimum0(x) ==
    CASE x.t = "fin" -> Fin(Min(x.re, 0), 0)
      [] x.t = "pinf" -> Zero
      [] x.t = "ninf" -> NInf
      [] x.t = "nan" -> NaN

np_maximum0(x) ==
    CASE x.t = "fin" -> Fin(Max(x.re, 0), 0)
      [] x.t = "pinf" -> PInf
      [] x.t = "ninf" -> Zero
      [] x.t = "nan" -> NaN

\* Floor division by a positive number.
FloorDiv(a, b) == IF a >= 0 THEN a \div b ELSE -((-a + b - 1) \div b)

\* np.round of r quanta: the nearest integer, a tie going to the even one.
RoundQ(r) ==
    LET lo == FloorDiv(r, ONE)
        rem == r - lo * ONE
    IN  IF 2 * rem < ONE THEN lo * ONE
        ELSE IF 2 * rem > ONE THEN (lo + 1) * ONE
        ELSE IF lo % 2 = 0 THEN lo * ONE ELSE (lo + 1) * ONE

np_round(x) == IF IsFin(x) THEN Fin(RoundQ(x.re), 0) ELSE x

\* np.clip(x, 0., 1.)
np_clip01(x) ==
    CASE x.t = "fin" -> Fin(Max(0, Min(x.re, ONE)), 0)
      [] x.t = "pinf" -> Fin(ONE, 0)
      [] x.t = "ninf" -> Zero
      [] x.t = "nan" -> NaN

np_add(x, y) ==
    CASE IsNan(x) \/ IsNan(y) -> NaN
      [] IsFin(x) /\ IsFin(y) -> Fin(x.re + y.re, x.im + y.im)
      [] IsFin(x) -> y
      [] IsFin(y) -> x
      [] OTHER -> IF x.t = y.t THEN x ELSE NaN

np_neg(x) ==
    CASE x.t = "fin" -> Fin(-x.re, -x.im)
      [] x.t = "pinf" -> NInf
      [] x.t = "ninf" -> PInf
      [] x.t = "nan" -> NaN

np_sub(x, y) == np_add(x, np_neg(y))

\* x / 2. ; the modelled inputs keep the quotient on the grid.
np_half(x) == IF IsFin(x) THEN Fin(x.re \div 2, x.im \div 2) ELSE x

\* |d| <= atol, for d = val - projection: np.allclose(|d|, 0, atol=atol).
close_to_zero(d, atol) ==
    IsFin(d) /\ d.re * d.re + d.im * d.im <= atol * atol

----------------------------------------------------------------------------
(* Leaf: values                                                            *)

VecShape == <<2>>
MatShape == <<2, 2>>
LongShape == <<3>>

\* Number of entries of a shape.
NumEntries(shape) == IF Len(shape) = 1 THEN shape[1] ELSE shape[1] * shape[2]

\* A value: its container type, its shape, its entries in row-major order.
Val(ty, shape, e) == [ty |-> ty, shape |-> shape, e |-> e]

\* The elementwise numpy functions applied to a whole value; the result is
\* an ndarray of the same shape.
arr_np_real(val) ==
    Val("ndarray", val.shape, [i \in DOMAIN val.e |-> np_real(val.e[i])])
arr_zero_times(val) ==
    Val("ndarray", val.shape, [i \in DOMAIN val.e |-> zero_times(val.e[i])])
arr_np_minimum0(val) ==
    Val("ndarray", val.shape, [i \in DOMAIN val.e |-> np_minimum0(val.e[i])])
arr_np_maximum0(val) ==
    Val("ndarray", val.shape, [i \in DOMAIN val.e |-> np_maximum0(val.e[i])])
arr_np_imag_j(val) ==
    Val("ndarray", val.shape, [i \in DOMAIN val.e |-> np_imag_j(val.e[i])])
arr_np_clip01(val) ==
    Val("ndarray", val.shape, [i \in DOMAIN val.e |-> np_clip01(val.e[i])])
arr_np_round(val) ==
    Val("ndarray", val.shape, [i \in DOMAIN val.e |-> np_round(val.e[i])])

\* Index of entry (r, c) of a square matrix with n rows, and of its transpose.
Idx(n, r, c) == (r - 1) * n + c
RowOf(n, i) == ((i - 1) \div n) + 1
ColOf(n, i) == ((i - 1) % n) + 1
TIdx(n, i) == Idx(n, ColOf(n, i), RowOf(n, i))

\* intf.convert: a list becomes an ndarray; arrays and sparse matrices stay.
convert(val) == IF val.ty = "list" THEN Val("ndarray", val.shape, val.e) ELSE val

\* intf.is_sparse
is_sparse(val) == val.ty = "sparse"

Raise(msg) == [raise |-> msg]
Raised(r) == "raise" \in DOMAIN r

----------------------------------------------------------------------------
(* Leaf: project and _validate_value                                       *)

\* The keys of Leaf.attributes, in the order of the dictionary.
AttrOrder == <<"nonneg", "nonpos", "pos", "neg", "complex", "imag", "symmetric",
               "diag", "PSD", "NSD", "hermitian", "boolean", "integer",
               "sparsity", "bounds">>
AttrNames == {AttrOrder[i] : i \in DOMAIN AttrOrder}
\* The keyword arguments that are flags (sparsity and bounds carry a value).
FlagNames == AttrNames \ {"sparsity", "bounds"}

\* self.attributes[name], as a truth value; lf.attrs is the set of true keys.
Attr(lf, name) == name \in lf.attrs

is_imag(lf) == Attr(lf, "imag")
is_complex(lf) == Attr(lf, "complex") \/ is_imag(lf) \/ Attr(lf, "hermitian")

\* (val + val.T) / 2 and (val + conj(val).T) / 2 of a square matrix.
Symmetrize(val) ==
    LET n == val.shape[1]
    IN  Val("ndarray", val.shape,
            [i \in DOMAIN val.e |-> np_half(np_add(val.e[i], val.e[TIdx(n, i)]))])

HermitianPart(val) ==
    LET n == val.shape[1]
    IN  Val("ndarray", val.shape,
            [i \in DOMAIN val.e |->
                np_half(np_add(val.e[i], np_conj(val.e[TIdx(n, i)])))])

\* sp.diags([diagonal of val], [0])
DiagPart(val) ==
    LET n == val.shape[1]
    IN  Val("sparse", val.shape,
            [i \in DOMAIN val.e |-> IF RowOf(n, i) = ColOf(n, i) THEN val.e[i] ELSE Zero])

(* LA.eigh of a real symmetric 2 x 2 matrix S = [[a, b], [b, c]], followed by  *)
(* the clipping of the eigenvalues and (V * w).dot(V.T), for the two families  *)
(* whose eigenvectors are rational:                                            *)
(*   b = 0 : eigenvalues a, c with the unit vectors;                           *)
(*   a = c : eigenvalues a + b, a - b with (1, 1)/sqrt 2 and (1, -1)/sqrt 2.   *)
(* keep(w) is the clipped eigenvalue: max(w, 0) for PSD, min(w, 0) for NSD.    *)
ClipEig(S, clip_neg) ==
    LET a == S.e[1].re
        b == S.e[2].re
        c == S.e[4].re
        keep(w) == IF clip_neg THEN Max(w, 0) ELSE Min(w, 0)
        bad(w) == IF clip_neg THEN w < 0 ELSE w > 0
        l1 == a + b
        l2 == a - b
    IN  IF b = 0
        THEN IF ~bad(a) /\ ~bad(c) THEN S
             ELSE Val("ndarray", S.shape,
                      <<Fin(keep(a), 0), Zero, Zero, Fin(keep(c), 0)>>)
        ELSE IF a = c
        THEN IF ~bad(l1) /\ ~bad(l2) THEN S
             ELSE LET p == (keep(l1) + keep(l2)) \div 2
                      q == (keep(l1) - keep(l2)) \div 2
                  IN  Val("ndarray", S.shape,
                          <<Fin(p, 0), Fin(q, 0), Fin(q, 0), Fin(p, 0)>>)
        ELSE Raise("eigenvectors not rational")

\* Leaf.project. The result is a value, or Raise(..) where the code raises.
project(lf, val) ==
    LET v == IF ~is_complex(lf) THEN arr_np_real(val) ELSE val
    IN  IF Attr(lf, "nonpos") /\ Attr(lf, "nonneg") THEN arr_zero_times(v)
        ELSE IF Attr(lf, "nonpos") \/ Attr(lf, "neg") THEN arr_np_minimum0(v)
        ELSE IF Attr(lf, "nonneg") \/ Attr(lf, "pos") THEN arr_np_maximum0(v)
        ELSE IF Attr(lf, "imag") THEN arr_np_imag_j(v)
        ELSE IF Attr(lf, "complex")
        THEN IF v.ty = "list" THEN Raise("AttributeError") ELSE v
        ELSE IF Attr(lf, "boolean")
        THEN arr_np_round(arr_np_clip01(v))
        ELSE IF Attr(lf, "integer") THEN arr_np_round(v)
        ELSE IF Attr(lf, "diag") THEN DiagPart(v)
        ELSE IF Attr(lf, "hermitian") THEN HermitianPart(v)
        ELSE IF Attr(lf, "symmetric") \/ Attr(lf, "PSD") \/ Attr(lf, "NSD")
        THEN LET S == Symmetrize(v)
             IN  IF Attr(lf, "symmetric") THEN S
                 ELSE ClipEig(S, Attr(lf, "PSD"))
        ELSE v

\* np.abs(val - projection), before the absolute value is taken.
Delta(val, projection) ==
    Val(IF is_sparse(val) /\ is_sparse(projection) THEN "sparse" ELSE "ndarray",
        val.shape,
        [i \in DOMAIN val.e |-> np_sub(val.e[i], projection.e[i])])

AllClose(delta, atol) == \A i \in DOMAIN delta.e : close_to_zero(delta.e[i], atol)

(* LA.norm(delta, ord=2) <= tol for a real 2 x 2 matrix D of absolute values:  *)
(* with T = trace(D'D) and G = det(D)^2 the largest singular value s has       *)
(* s^2 = (T + sqrt(T^2 - 4G)) / 2, so s <= tol iff T <= 2 tol^2 and            *)
(* tol^2 T - G <= tol^4.                                                       *)
Norm2AtMost(delta, tol) ==
    /\ \A i \in DOMAIN delta.e : IsFin(delta.e[i])
    /\ LET p == Abs(delta.e[1].re)
           q == Abs(delta.e[2].re)
           r == Abs(delta.e[3].re)
           u == Abs(delta.e[4].re)
           T == p * p + q * q + r * r + u * u
           G == (p * u - q * r) * (p * u - q * r)
       IN  /\ T <= 2 * tol * tol
           /\ tol * tol * T - G <= tol * tol * tol * tol

\* The attribute named by the domain-violation error.
attr_str(lf) ==
    IF Attr(lf, "nonneg") THEN "nonnegative"
    ELSE IF Attr(lf, "pos") THEN "positive"
    ELSE IF Attr(lf, "nonpos") THEN "nonpositive"
    ELSE IF Attr(lf, "neg") THEN "negative"
    ELSE IF Attr(lf, "diag") THEN "diagonal"
    ELSE IF Attr(lf, "PSD") THEN "positive semidefinite"
    ELSE IF Attr(lf, "NSD") THEN "negative semidefinite"
    ELSE IF Attr(lf, "imag") THEN "imaginary"
    ELSE IF lf.attrs = {} THEN "real"
    ELSE AttrOrder[CHOOSE i \in DOMAIN AttrOrder :
                     /\ AttrOrder[i] \in lf.attrs
                     /\ \A j \in 1..(i - 1) : AttrOrder[j] \notin lf.attrs]

\* Variant: validation hands back the projection it computed.
validate_returns_projection(lf, val0) ==
    IF val0 = None THEN None
    ELSE LET val == convert(val0) IN
         IF val.shape # lf.shape THEN Raise("Invalid dimensions")
         ELSE LET projection == project(lf, val) IN
              IF Raised(projection) THEN projection
              ELSE IF AllClose(Delta(val, projection), GENERAL_PROJECTION_TOL)
                   THEN projection
                   ELSE Raise(attr_str(lf))

\* Leaf._validate_value. The result is the converted value, or Raise(..).
validate_value(lf, val0) ==
    IF val0 = None THEN None
    ELSE LET val == convert(val0) IN
         IF val.shape # lf.shape THEN Raise("Invalid dimensions")
         ELSE LET projection == project(lf, val) IN
              IF Raised(projection) THEN projection
              ELSE LET delta == Delta(val, projection)
                       close_enough ==
                           IF is_sparse(delta)
                           THEN AllClose(delta, SPARSE_PROJECTION_TOL)
                           ELSE IF Attr(lf, "PSD") \/ Attr(lf, "NSD")
                           THEN Norm2AtMost(delta, PSD_NSD_PROJECTION_TOL)
                           ELSE AllClose(delta, GENERAL_PROJECTION_TOL)
                   IN  IF ~close_enough THEN Raise(attr_str(lf)) ELSE val

----------------------------------------------------------------------------
(* Leaf: the bounds setter                                                 *)

\* A bounds endpoint: None, a scalar, or an array with a shape.
NoEndpoint == [form |-> "none"]
ScalarEnd(x) == [form |-> "scalar", v |-> x]
ArrayEnd(shape, e) == [form |-> "array", shape |-> shape, e |-> e]

\* A list of two endpoints, and a value that is not a list of two items.
ListOf(l, u) == [form |-> "list", lower |-> l, upper |-> u]
NotAList == [form |-> "tuple"]

\* x < y in floating point: false when either side is NaN.
np_lt(x, y) ==
    /\ ~IsNan(x) /\ ~IsNan(y)
    /\ \/ x.t = "ninf" /\ y.t # "ninf"
       \/ y.t = "pinf" /\ x.t # "pinf"
       \/ IsFin(x) /\ IsFin(y) /\ x.re < y.re

\* b == np.nan: NaN is equal to nothing.
eq_nan(b) == FALSE

\* Entry i of an endpoint under broadcasting.
At(b, i) == IF b.form = "scalar" THEN b.v ELSE b.e[i]

\* np.full(self.shape, x)
np_full(shape, x) == ArrayEnd(shape, [i \in 1..NumEntries(shape) |-> x])

\* np.any(np.isnan(b)) for a scalar or an array
any_isnan(b) ==
    IF b.form = "scalar" THEN IsNan(b.v) ELSE \E i \in DOMAIN b.e : IsNan(b.e[i])

Stored(b) == [store |-> b]

(* Lines 532-574 of the setter: the checks for infinite and NaN endpoints, the *)
(* broadcast of scalar endpoints, the conflict masks and the assignment.       *)
bounds_inf_nan_checks(shape, lower, upper) ==
    LET is_lower_scalar == lower.form = "scalar"
        is_upper_scalar == upper.form = "scalar"
        is_lower_array == lower.form = "array"
        is_upper_array == upper.form = "array"
        n == NumEntries(shape)
        \* lower_bounds and upper_bounds after each broadcast
        lower1 == IF is_lower_scalar THEN np_full(shape, lower.v) ELSE lower
        upper1 == IF is_upper_scalar THEN np_full(shape, upper.v) ELSE upper
    IN  IF is_lower_scalar /\ is_upper_scalar
           /\ lower.v = NInf /\ upper.v = NInf
        THEN Raise("-np.inf is not feasible as lower and upper bound.")
        ELSE IF is_lower_scalar /\ is_upper_scalar
                /\ lower.v = PInf /\ upper.v = PInf
        THEN Raise("np.inf is not feasible as lower and upper bound.")
        ELSE IF is_lower_scalar /\ is_upper_scalar
                /\ (eq_nan(IsNan(lower.v)) \/ eq_nan(IsNan(upper.v)))
        THEN Raise("np.nan is not feasible as lower or upper bound.")
        ELSE IF is_lower_scalar
                /\ (eq_nan(any_isnan(lower1)) \/ any_isnan(upper))
        THEN Raise("np.nan is not feasible as lower or upper bound.")
        ELSE IF is_upper_scalar
                /\ (eq_nan(any_isnan(upper1)) \/ any_isnan(lower1))
        THEN Raise("np.nan is not feasible as lower or upper bound.")
        ELSE IF is_lower_array /\ is_upper_array
                /\ (any_isnan(lower1) \/ any_isnan(upper1))
        THEN Raise("np.nan is not feasible as lower or upper bound.")
        ELSE IF \E i \in 1..n : lower1.e[i] = NInf /\ upper1.e[i] = NInf
        THEN Raise("-np.inf is not feasible as lower and upper bound.")
        ELSE IF \E i \in 1..n : lower1.e[i] = PInf /\ upper1.e[i] = PInf
        THEN Raise("np.inf is not feasible as lower and upper bound.")
        ELSE Stored(<<lower1.e, upper1.e>>)

\* Variant: equal endpoints are rejected too.
upper_below_lower_or_equal(shape, lower, upper) ==
    \E i \in 1..NumEntries(shape) : ~np_lt(At(lower, i), At(upper, i))

\* np.any(upper_bounds < lower_bounds), with scalars broadcast
upper_below_lower(shape, lower, upper) ==
    \E i \in 1..NumEntries(shape) : np_lt(At(upper, i), At(lower, i))

\* The bounds setter: Stored(new _bounds), or Raise(..).
bounds_setter(shape, bvalue) ==
    IF bvalue = None THEN Stored(None)
    ELSE IF bvalue = NotAList THEN Raise("Bounds should be a list of two items.")
    ELSE LET lower == bvalue.lower
             upper == bvalue.upper
         IN  IF lower.form = "none" /\ upper.form # "none"
             THEN Raise("If upper bounds are passed, lower bounds should also be passed.")
             ELSE IF lower.form # "none" /\ upper.form = "none"
             THEN Raise("If lower bounds are passed, upper bounds should also be passed.")
             ELSE IF ~(\/ lower.form = "scalar" /\ upper.form = "scalar"
                       \/ lower.form = "scalar" /\ upper.form = "array"
                          /\ upper.shape = shape
                       \/ upper.form = "scalar" /\ lower.form = "array"
                          /\ lower.shape = shape
                       \/ lower.form = "array" /\ upper.form = "array"
                          /\ lower.shape = shape /\ upper.shape = shape)
             THEN Raise("Bounds should contain scalars and/or arrays with the same dimensions")
             ELSE IF upper_below_lower(shape, lower, upper)
             THEN Raise("Invalid bounds: some upper bounds are less than corresponding lower bounds.")
             ELSE bounds_inf_nan_checks(shape, lower, upper)

----------------------------------------------------------------------------
(* Leaf: construction                                                      *)

\* Largest number of flags set in one modelled constructor call.
MaxFlags == 2

\* A sparsity pattern (a non-empty list of index tuples).
SomeSparsity == [pattern |-> <<<<1, 1>>>>]

MoreThanOne == "Cannot set more than one special attribute"
NotSquare == "Invalid dimensions. Must be a square matrix."

\* The keys of self.attributes whose value is true.
TrueAttrs(flags, sparsity, bvalue) ==
    flags \cup (IF sparsity # None THEN {"sparsity"} ELSE {})
          \cup (IF bvalue # None THEN {"bounds"} ELSE {})

\* true_attr of Leaf.__init__
true_attr(flags, sparsity, bvalue) ==
    LET n == Cardinality(TrueAttrs(flags, sparsity, bvalue))
    IN  IF "boolean" \in flags /\ "integer" \in flags THEN n - 1 ELSE n

(* Leaf.__init__. The result is the new object (leaf, value, bounds) or    *)
(* Raise(..); _value of a leaf given no value is None.                     *)
leaf_init(shape, val, flags, sparsity, bvalue) ==
    LET lf == [shape |-> shape, attrs |-> TrueAttrs(flags, sparsity, bvalue)]
        validated == validate_value(lf, val)
        b == bounds_setter(shape, bvalue)
    IN  IF flags \cap {"PSD", "NSD", "symmetric", "diag", "hermitian"} # {}
           /\ (Len(shape) # 2 \/ shape[1] # shape[2])
        THEN Raise(NotSquare)
        ELSE IF true_attr(flags, sparsity, bvalue) > 1 THEN Raise(MoreThanOne)
        ELSE IF val # None /\ Raised(validated) THEN validated
        ELSE IF Raised(b) THEN b
        ELSE [leaf |-> lf, value |-> IF val # None THEN validated ELSE None,
              bounds |-> b.store]

----------------------------------------------------------------------------
(* Leaf: the modelled inputs                                               *)

Shapes == {VecShape, MatShape}

FlagSets == {F \in SUBSET FlagNames : Cardinality(F) <= MaxFlags}

\* Endpoint values of bounds.
BoundVals == {NInf, Fin(3, 0), Fin(5, 0), PInf, NaN}

\* Arrays of the given shape: any first entry, then 3, 5 or NaN throughout.
BoundArrays(shape) ==
    {ArrayEnd(shape, [i \in 1..NumEntries(shape) |-> IF i = 1 THEN x ELSE y]) :
        x \in BoundVals, y \in {Fin(3, 0), Fin(5, 0), NaN}}

Endpoints(shape) ==
    {NoEndpoint} \cup {ScalarEnd(x) : x \in BoundVals} \cup BoundArrays(shape)
        \cup {ArrayEnd(LongShape, <<Fin(3, 0), Fin(3, 0), Fin(3, 0)>>)}

BoundsInputsOf(shape) ==
    {None, NotAList} \cup
    {ListOf(l, u) : l \in Endpoints(shape), u \in Endpoints(shape)}

BoundsInputsVec == BoundsInputsOf(VecShape)
BoundsInputsMat == BoundsInputsOf(MatShape)
BoundsInputs(shape) == IF shape = VecShape THEN BoundsInputsVec ELSE BoundsInputsMat

ValidBounds == ListOf(ScalarEnd(Fin(3, 0)), ScalarEnd(Fin(5, 0)))

\* Entries of vector values: reals around the tolerance and around 1/2, 1,
\* 3/2; numbers with an imaginary part; the non-finite numbers.
VecEntries ==
    {Fin(r, 0) : r \in {-ONE, -GENERAL_PROJECTION_TOL, 0, GENERAL_PROJECTION_TOL,
                        ONE \div 2, ONE, ONE + ONE \div 2}}
    \cup {Fin(0, ONE), Fin(GENERAL_PROJECTION_TOL, ONE), Fin(ONE, GENERAL_PROJECTION_TOL)}
    \cup {PInf, NInf, NaN}

VecSecond == {Zero, Fin(ONE, 0), Fin(-GENERAL_PROJECTION_TOL, 0)}

VecVals == {Val("ndarray", VecShape, <<x, y>>) : x \in VecEntries, y \in VecSecond}

ListVals ==
    {Val("list", VecShape, <<x, Fin(ONE, 0)>>) :
        x \in {Fin(-ONE, 0), Fin(-GENERAL_PROJECTION_TOL, 0), Fin(0, ONE), PInf}}

LongVals ==
    {Val("ndarray", LongShape, <<x, Fin(ONE, 0), Zero>>) :
        x \in {Fin(-ONE, 0), Zero, Fin(ONE, 0)}}

\* Entries of matrix values.
MatEntries == {Fin(-4, 0), Fin(-1, 0), Zero, Fin(2, 0)}
SpecialEntries == {PInf, NaN, Fin(0, 2), Fin(2, 2)}

MatVals ==
    {Val("ndarray", MatShape, <<a, x, y, c>>) :
        a \in MatEntries, x \in MatEntries \ {Fin(-1, 0)},
        y \in MatEntries \ {Fin(-1, 0)}, c \in {Zero, Fin(2, 0)}}
    \cup {Val("ndarray", MatShape, <<x, Zero, Zero, Fin(2, 0)>>) : x \in SpecialEntries}
    \cup {Val("ndarray", MatShape, <<Zero, x, Zero, Fin(2, 0)>>) : x \in SpecialEntries}
    \cup {Val("ndarray", MatShape, <<Zero, x, np_conj(x), Zero>>) : x \in SpecialEntries}

SparseVals ==
    {Val("sparse", MatShape, <<x, y, Zero, Fin(2, 0)>>) :
        x \in {Zero, Fin(2, 0), PInf}, y \in {Zero, Fin(-1, 0), Fin(2, 0)}}

SquareKinds == {"symmetric", "diag", "PSD", "NSD", "hermitian"}

AllFinite(val) == \A i \in DOMAIN val.e : IsFin(val.e[i])
AllReal(val) == \A i \in DOMAIN val.e : val.e[i].im = 0
Even(n) == n % 2 = 0

(* The matrix inputs on which the leaf's projection stays on the grid: the *)
(* halved sums are whole, and for PSD/NSD the matrix is finite and real    *)
(* and its symmetric part has rational eigenvectors.                       *)
OnGrid(lf, val) ==
    LET n == val.shape[1]
        S == Symmetrize(arr_np_real(val))
        l1 == S.e[1].re + S.e[2].re
        l2 == S.e[1].re - S.e[2].re
    IN  /\ (lf.attrs \cap {"symmetric", "PSD", "NSD", "hermitian"} # {}) =>
              \A i \in DOMAIN val.e :
                  (IsFin(val.e[i]) /\ IsFin(val.e[TIdx(n, i)])) =>
                      /\ Even(val.e[i].re + val.e[TIdx(n, i)].re)
                      /\ Attr(lf, "hermitian") => Even(val.e[i].im - val.e[TIdx(n, i)].im)
        /\ (lf.attrs \cap {"PSD", "NSD"} # {}) =>
              /\ AllFinite(val) /\ AllReal(val)
              /\ S.e[2].re = 0 \/ (S.e[1].re = S.e[4].re /\ Even(l1))

VecInputs == VecVals \cup ListVals \cup LongVals \cup {None}

\* The values offered to the value operations of a leaf.
ValueInputs(lf) ==
    IF lf.shape = VecShape
    THEN VecInputs
    ELSE {v \in MatVals : OnGrid(lf, v)}
         \cup (IF Attr(lf, "diag") THEN SparseVals ELSE {})
         \cup (IF lf.attrs \cap SquareKinds = {} THEN LongVals ELSE {})
         \cup {None}

----------------------------------------------------------------------------
(* Leaf: state and operations                                              *)

varsLeaf == <<leaf, value, bounds, err, op, arg>>

InitLeaf ==
    /\ leaf = None
    /\ value = None
    /\ bounds = None
    /\ err = "none"
    /\ op = "none"
    /\ arg = None

\* Leaf(shape, value, <flags>, sparsity=.., bounds=..): the first operation
\* of a behaviour; a constructor that raises leaves no object behind.
Construct(shape, val, flags, sparsity, bvalue) ==
    /\ leaf = None
    /\ op = "none"
    /\ LET r == leaf_init(shape, val, flags, sparsity, bvalue)
       IN  IF Raised(r)
           THEN /\ err' = r.raise
                /\ UNCHANGED <<leaf, value, bounds>>
           ELSE /\ err' = "none"
                /\ leaf' = r.leaf
                /\ value' = r.value
                /\ bounds' = r.bounds
    /\ op' = "init"
    /\ arg' = [shape |-> shape, val |-> val, flags |-> flags,
               sparsity |-> sparsity, bvalue |-> bvalue]

\* leaf.bounds = bvalue, on a leaf that was just constructed (bounds are
\* fixed at construction: the model assigns them once more at most).
SetBounds ==
    /\ leaf # None
    /\ op = "init"
    /\ \E bvalue \in BoundsInputs(leaf.shape) :
         /\ LET r == bounds_setter(leaf.shape, bvalue)
            IN  IF Raised(r)
                THEN err' = r.raise /\ UNCHANGED bounds
                ELSE err' = "none" /\ bounds' = r.store
         /\ arg' = [bvalue |-> bvalue]
    /\ op' = "set_bounds"
    /\ UNCHANGED <<leaf, value>>

\* Variant: the value is saved before it is validated.
SetValueSaveFirst ==
    /\ leaf # None
    /\ \E val \in ValueInputs(leaf) :
         LET r == validate_value(leaf, val)
         IN  IF Raised(r)
             THEN err' = r.raise /\ arg' = None /\ value' = val
             ELSE err' = "none" /\ arg' = val /\ value' = r
    /\ op' = "set_value"
    /\ UNCHANGED <<leaf, bounds>>

\* leaf.value = val : save_value(_validate_value(val))
SetValue ==
    /\ leaf # None
    /\ \E val \in ValueInputs(leaf) :
         LET r == validate_value(leaf, val)
         IN  IF Raised(r)
             THEN err' = r.raise /\ arg' = None /\ UNCHANGED value
             ELSE err' = "none" /\ arg' = val /\ value' = r
    /\ op' = "set_value"
    /\ UNCHANGED <<leaf, bounds>>

\* leaf.project_and_assign(val) : save_value(project(val))
ProjectAndAssign ==
    /\ leaf # None
    /\ \E val \in ValueInputs(leaf) \ {None} :
         LET r == project(leaf, val)
         IN  IF Raised(r)
             THEN err' = r.raise /\ UNCHANGED value
             ELSE err' = "none" /\ value' = r
    /\ op' = "project_and_assign"
    /\ arg' = None
    /\ UNCHANGED <<leaf, bounds>>

\* leaf.value = leaf.project(val), the idiom of project's docstring
AssignProjected ==
    /\ leaf # None
    /\ \E val \in ValueInputs(leaf) \ {None} :
         LET p == project(leaf, val)
             r == IF Raised(p) THEN p ELSE validate_value(leaf, p)
         IN  /\ IF Raised(r)
                THEN err' = r.raise /\ UNCHANGED value
                ELSE err' = "none" /\ value' = r
             /\ arg' = val
    /\ op' = "assign_projected"
    /\ UNCHANGED <<leaf, bounds>>

\* The modelled constructor calls give a matrix leaf a square-matrix
\* attribute or no flag at all; a vector leaf is given any flags.
ShapeFlags(shape, flags) ==
    shape = MatShape => (flags = {} \/ flags \cap SquareKinds # {})

\* Construction with every modelled form of bounds.
LeafConstruct ==
    /\ leaf = None /\ op = "none"
    /\ \E shape \in Shapes, flags \in FlagSets, sparsity \in {None, SomeSparsity} :
         /\ ShapeFlags(shape, flags)
         /\ \E bvalue \in BoundsInputs(shape) :
               Construct(shape, None, flags, sparsity, bvalue)

\* Construction with a first value.
ValueConstruct ==
    /\ leaf = None /\ op = "none"
    /\ \E shape \in Shapes, flags \in FlagSets, bvalue \in {None, ValidBounds} :
        /\ ShapeFlags(shape, flags)
        /\ \E val \in {None, Val("ndarray", shape, [i \in 1..NumEntries(shape) |-> Zero]),
                    Val("ndarray", shape, [i \in 1..NumEntries(shape) |-> Fin(-ONE, 0)])} :
            Construct(shape, val, flags, None, bvalue)

----------------------------------------------------------------------------
(* utilities/linalg.py : is_psd_within_tol                                 *)

\* Largest absolute value of an entry of the modelled matrices.
MaxEntry == 1
\* Largest modelled tolerance.
MaxTol == 1

Entries == (-MaxEntry)..MaxEntry
Tols == 0..MaxTol

\* The symmetric 3 x 3 matrices with entries in Entries, as tuples of rows.
SymMatrices ==
    {<<<<a, b, c>>, <<b, d, e>>, <<c, e, f>>>> :
        a \in Entries, b \in Entries, c \in Entries,
        d \in Entries, e \in Entries, f \in Entries}

\* The container types handed to the check.
MatrixTypes == {"ndarray", "spmatrix", "list"}

RECURSIVE SumOver(_, _)
\* Sum of f[i] over the finite set S of indices.
SumOver(f, S) ==
    IF S = {} THEN 0
    ELSE LET i == CHOOSE j \in S : TRUE IN f[i] + SumOver(f, S \ {i})

\* Variant: the radii are sums of the off-diagonal entries with their signs.
gershgorin_signed_radii(A, tol) ==
    LET diag == [i \in DOMAIN A |-> A[i][i]]
        A_shift == [i \in DOMAIN A |->
                      [j \in DOMAIN A |-> IF i = j THEN 0 ELSE A[i][j]]]
        radii == [j \in DOMAIN A |->
                    SumOver([i \in DOMAIN A |-> A_shift[i][j]], DOMAIN A)]
    IN  IF \E i \in DOMAIN A : diag[i] < -tol THEN FALSE
        ELSE \A j \in DOMAIN A : diag[j] - radii[j] >= -tol

\* gershgorin_psd_check for an ndarray or a sparse matrix (the two branches
\* compute the same): radii are the column sums of |A - diag(A)|.
gershgorin_psd_check(A, tol) ==
    LET diag == [i \in DOMAIN A |-> A[i][i]]
        A_shift == [i \in DOMAIN A |->
                      [j \in DOMAIN A |-> IF i = j THEN 0 ELSE Abs(A[i][j])]]
        radii == [j \in DOMAIN A |->
                    SumOver([i \in DOMAIN A |-> A_shift[i][j]], DOMAIN A)]
    IN  IF \E i \in DOMAIN A : diag[i] < -tol THEN FALSE
        ELSE \A j \in DOMAIN A : diag[j] - radii[j] >= -tol

Det2(a, b, c, d) == a * d - b * c

\* Every eigenvalue of the symmetric 3 x 3 matrix A is >= -tol: A + tol*I is
\* positive semidefinite, that is, all its principal minors are >= 0.
MinEigAtLeast(A, tol) ==
    LET B == [i \in DOMAIN A |-> [j \in DOMAIN A |-> IF i = j THEN A[i][j] + tol ELSE A[i][j]]]
        det3 == B[1][1] * Det2(B[2][2], B[2][3], B[3][2], B[3][3])
                - B[1][2] * Det2(B[2][1], B[2][3], B[3][1], B[3][3])
                + B[1][3] * Det2(B[2][1], B[2][2], B[3][1], B[3][2])
    IN  /\ \A i \in DOMAIN A : B[i][i] >= 0
        /\ Det2(B[1][1], B[1][2], B[2][1], B[2][2]) >= 0
        /\ Det2(B[1][1], B[1][3], B[3][1], B[3][3]) >= 0
        /\ Det2(B[2][2], B[2][3], B[3][2], B[3][3]) >= 0
        /\ det3 >= 0

(* What one call of SA_eigsh(sigma) can do: raise ArpackNoConvergence,     *)
(* return NaN, or return the estimate of the smallest eigenvalue, of which *)
(* the model keeps whether it is >= -tol.                                  *)
EigshOutcomes(A, tol) ==
    {[kind |-> "raise"], [kind |-> "nan"],
     [kind |-> "value", ge |-> MinEigAtLeast(A, tol)]}

\* np.all(ev >= -tol)
ev_at_least(ev) == ev.kind = "value" /\ ev.ge

NoConvergence(note) == [type |-> "ArpackNoConvergence", note |-> note]

varsPsd == <<psd>>

InitPsd == psd = [pc |-> "idle"]

\* is_psd_within_tol(A, tol), up to the first call of the estimator
PsdCall ==
    /\ psd.pc = "idle"
    /\ \E A \in SymMatrices, tol \in Tols, ty \in MatrixTypes :
         psd' = IF ty \notin {"ndarray", "spmatrix"}
                THEN [pc |-> "done", A |-> A, tol |-> tol, ty |-> ty, calls |-> <<>>,
                      exc |-> [type |-> "ValueError"], result |-> None]
                ELSE IF gershgorin_psd_check(A, tol)
                THEN [pc |-> "done", A |-> A, tol |-> tol, ty |-> ty, calls |-> <<>>,
                      exc |-> None, result |-> TRUE]
                ELSE [pc |-> "eig1", A |-> A, tol |-> tol, ty |-> ty, calls |-> <<>>,
                      exc |-> None, result |-> None]

\* ev = SA_eigsh(-tol) inside the try block, and what follows a number
PsdFirstEstimate ==
    /\ psd.pc = "eig1"
    /\ \E ev \in EigshOutcomes(psd.A, psd.tol) :
         LET called == [psd EXCEPT !.calls = Append(@, [tol |-> psd.tol, eps |-> 0,
                                                        out |-> ev.kind])]
         IN  psd' = CASE ev.kind = "raise" ->
                           [called EXCEPT !.pc = "done", !.exc = NoConvergence(TRUE)]
                      [] ev.kind = "nan" -> [called EXCEPT !.pc = "eig2"]
                      [] ev.kind = "value" ->
                           [called EXCEPT !.pc = "done", !.result = ev_at_least(ev)]

\* Variant: a NaN from the retry is retried again.
PsdRetryUntilNumber ==
    /\ psd.pc = "eig2"
    /\ \E ev \in EigshOutcomes(psd.A, psd.tol) :
         LET called == [psd EXCEPT !.calls = Append(@, [tol |-> psd.tol, eps |-> 1,
                                                        out |-> ev.kind])]
         IN  psd' = IF ev.kind = "raise"
                    THEN [called EXCEPT !.pc = "done", !.exc = NoConvergence(FALSE)]
                    ELSE IF ev.kind = "nan" /\ Len(psd.calls) < 2
                    THEN called
                    ELSE [called EXCEPT !.pc = "done", !.result = ev_at_least(ev)]

\* temp = tol - eps; ev = SA_eigsh(-temp); return np.all(ev >= -tol). A call
\* is recorded as sigma = -tol + eps * (machine epsilon) and its outcome.
PsdRetry ==
    /\ psd.pc = "eig2"
    /\ \E ev \in EigshOutcomes(psd.A, psd.tol) :
         LET called == [psd EXCEPT !.calls = Append(@, [tol |-> psd.tol, eps |-> 1,
                                                        out |-> ev.kind])]
         IN  psd' = IF ev.kind = "raise"
                    THEN [called EXCEPT !.pc = "done", !.exc = NoConvergence(FALSE)]
                    ELSE [called EXCEPT !.pc = "done", !.result = ev_at_least(ev)]

----------------------------------------------------------------------------
(* utilities/linalg.py : orth, onb_for_orthogonal_complement               *)

\* Largest number of rows and of columns of the modelled V.
MaxDim == 2

\* Entries of the modelled V.
VEntries == {-1, 0, 1}

\* The n x m matrices, as tuples of rows.
Matrices ==
    UNION {[1..n -> [1..m -> VEntries]] : n \in 1..MaxDim, m \in 1..MaxDim}

\* The square matrix M without its first row and its j-th column.
Minor(M, j) ==
    [r \in 1..(Len(M) - 1) |->
        [c \in 1..(Len(M) - 1) |-> M[r + 1][IF c < j THEN c ELSE c + 1]]]

RECURSIVE Det(_)
\* Determinant of a square matrix, by expansion along the first row.
Det(M) ==
    IF Len(M) = 1 THEN M[1][1]
    ELSE SumOver([j \in 1..Len(M) |->
                    (IF j % 2 = 1 THEN 1 ELSE -1) * M[1][j] * Det(Minor(M, j))],
                 1..Len(M))

\* The i-th smallest element of the set S of numbers.
Nth(S, i) == CHOOSE x \in S : Cardinality({y \in S : y < x}) = i - 1

\* V has a nonzero k x k minor.
HasMinor(V, k) ==
    \E rs \in SUBSET (1..Len(V)), cs \in SUBSET (1..Len(V[1])) :
        /\ Cardinality(rs) = k
        /\ Cardinality(cs) = k
        /\ Det([r \in 1..k |-> [c \in 1..k |-> V[Nth(rs, r)][Nth(cs, c)]]]) # 0

\* Number of rows of R with an entry above tol in the pivoted QR of V: the
\* rank of V (the entries of V are far above tol).
count_nonzero_rows(V) ==
    LET least == IF Len(V) < Len(V[1]) THEN Len(V) ELSE Len(V[1])
    IN  Cardinality({k \in 1..least : HasMinor(V, k)})

\* What the model keeps of a matrix: its rows and its numerical rank.
Described(V) == [rows |-> Len(V), rank |-> count_nonzero_rows(V)]

\* orth(V): Q[:, :rank] reshaped to V.shape[0] x rank; only the shape is kept.
orth(V) == [rows |-> V.rows, cols |-> V.rank]

\* P = np.eye(n) - Q1 @ Q1.T (Q1.conj().T for complex V): the projector on
\* the orthogonal complement of range(Q1), of rank n - Q1.cols.
projector(n, Q1, cplx) ==
    [rows |-> n, rank |-> n - Q1.cols, conj |-> cplx]

AssertionError == [type |-> "AssertionError"]

varsOnb == <<onb>>

InitOnb == onb = [pc |-> "idle"]

\* Variant: the assertion is n >= rank.
OnbCallWeakAssert ==
    /\ onb.pc = "idle"
    /\ \E V \in Matrices, cplx \in BOOLEAN :
         LET n == Len(V)
             Q1 == orth(Described(V))
             rank == Q1.cols
             run == [V |-> V, cplx |-> cplx, n |-> n, Q1 |-> Q1, rank |-> rank,
                     P |-> None, Q2 |-> None]
         IN  onb' = IF n >= rank
                    THEN run @@ [pc |-> "asserted", exc |-> None]
                    ELSE run @@ [pc |-> "done", exc |-> AssertionError]

\* onb_for_orthogonal_complement(V), up to the assertion
OnbCall ==
    /\ onb.pc = "idle"
    /\ \E V \in Matrices, cplx \in BOOLEAN :
         LET n == Len(V)
             Q1 == orth(Described(V))
             rank == Q1.cols
             run == [V |-> V, cplx |-> cplx, n |-> n, Q1 |-> Q1, rank |-> rank,
                     P |-> None, Q2 |-> None]
         IN  onb' = IF n > rank
                    THEN run @@ [pc |-> "asserted", exc |-> None]
                    ELSE run @@ [pc |-> "done", exc |-> AssertionError]

\* P = np.eye(n) - Q1 @ Q1.T, or with Q1.conj().T
OnbProjector ==
    /\ onb.pc = "asserted"
    /\ onb' = [onb EXCEPT !.pc = "projected",
                          !.P = projector(onb.n, onb.Q1, onb.cplx)]

\* Q2 = orth(P); return Q2
OnbSecondBasis ==
    /\ onb.pc = "projected"
    /\ onb' = [onb EXCEPT !.pc = "done", !.Q2 = orth(onb.P)]

----------------------------------------------------------------------------
(* Specifications                                                          *)

vars == <<node, sgn, red, next_id, cert, leaf, value, bounds, err, op, arg, psd, onb>>

Init == InitMax /\ InitLeaf /\ InitPsd /\ InitOnb

NextMax ==
    \/ MaxConstruct /\ UNCHANGED <<varsLeaf, varsPsd, varsOnb>>
    \/ MaxSign /\ UNCHANGED <<varsLeaf, varsPsd, varsOnb>>
    \/ MaxReduce /\ UNCHANGED <<varsLeaf, varsPsd, varsOnb>>

NextCurv ==
    \/ MaxConstruct /\ UNCHANGED <<varsLeaf, varsPsd, varsOnb>>
    \/ MaxCertify /\ UNCHANGED <<varsLeaf, varsPsd, varsOnb>>

NextLeaf ==
    \/ LeafConstruct /\ UNCHANGED <<varsMax, varsPsd, varsOnb>>
    \/ SetBounds /\ UNCHANGED <<varsMax, varsPsd, varsOnb>>

NextValue ==
    \/ ValueConstruct /\ UNCHANGED <<varsMax, varsPsd, varsOnb>>
    \/ SetValue /\ UNCHANGED <<varsMax, varsPsd, varsOnb>>
    \/ ProjectAndAssign /\ UNCHANGED <<varsMax, varsPsd, varsOnb>>
    \/ AssignProjected /\ UNCHANGED <<varsMax, varsPsd, varsOnb>>

NextPsd ==
    \/ PsdCall /\ UNCHANGED <<varsMax, varsLeaf, varsOnb>>
    \/ PsdFirstEstimate /\ UNCHANGED <<varsMax, varsLeaf, varsOnb>>
    \/ PsdRetry /\ UNCHANGED <<varsMax, varsLeaf, varsOnb>>

NextOnb ==
    \/ OnbCall /\ UNCHANGED <<varsMax, varsLeaf, varsPsd>>
    \/ OnbProjector /\ UNCHANGED <<varsMax, varsLeaf, varsPsd>>
    \/ OnbSecondBasis /\ UNCHANGED <<varsMax, varsLeaf, varsPsd>>

\* The elementwise maximum: construction, sign, reduction.
SpecMax == Init /\ [][NextMax]_vars

\* The elementwise maximum: construction and curvature analysis.
SpecCurv == Init /\ [][NextCurv]_vars

\* A leaf: construction and bounds assignment.
SpecLeaf == Init /\ [][NextLeaf]_vars

\* A leaf: construction and value assignment.
SpecValue == Init /\ [][NextValue]_vars

\* One run of is_psd_within_tol.
SpecPsd == Init /\ [][NextPsd]_vars

\* One run of onb_for_orthogonal_complement.
SpecOnb == Init /\ [][NextOnb]_vars

----------------------------------------------------------------------------
(* Claims about max_elemwise                                               *)

Positive == [pos |-> TRUE, neg |-> FALSE]
Negative == [pos |-> FALSE, neg |-> TRUE]
Unknown == [pos |-> FALSE, neg |-> FALSE]

\* C1 (as stated): graph_implementation never returns an auxiliary variable
\* and constraints for a node the DCP rules could not certify.
C1_NeverReducesUncertified ==
    (red # None /\ red.ok) => is_convex(node)

\* C1 (amended): graph_implementation makes no certification check; called on
\* the reduced arguments of an uncertified node it returns an auxiliary
\* variable and one constraint per argument, as for a certified node.
C1_ReducesRegardlessOfCurvature ==
    (red # None /\ ~is_convex(node)) =>
        /\ red.ok
        /\ red.t.type = "variable"
        /\ Len(red.constraints) = Len(node)

C1_Witness ==
    /\ red # None
    /\ ~is_convex(node)
    /\ \E i \in 1..Len(node) : node[i].curv = "concave"

\* C2: the reduction of k >= 2 arguments returns one fresh variable t of the
\* output size and exactly k constraints, the i-th being argument i (promoted
\* to the output size when its size differs) <= t, all against the same t.
C2_OneVarKConstraints ==
    (red # None /\ red.ok) =>
        LET k == Len(node)
            size == IF \E i \in 1..k : ~node[i].scalar THEN <<VecLen, 1>> ELSE <<1, 1>>
        IN  /\ red.t = [type |-> "variable", data |-> next_id - 1, size |-> size]
            /\ DOMAIN red.constraints = 1..k
            /\ \A i \in 1..k :
                  LET c == red.constraints[i]
                      a == [type |-> "arg", data |-> i,
                            size |-> IF node[i].scalar THEN <<1, 1>> ELSE <<VecLen, 1>>]
                  IN  /\ c.type = "leq"
                      /\ c.rh = red.t
                      /\ c.lh.size = size
                      /\ IF a.size = size
                         THEN c.lh = a
                         ELSE c.lh.type = "promote" /\ c.lh.data = a

C2_Witness ==
    /\ red # None
    /\ red.ok
    /\ Len(node) = 3
    /\ node[1].scalar /\ ~node[2].scalar
    /\ next_id = 2

\* C3: the result of sign_from_args is positive exactly when at least one
\* argument is positive and negative exactly when every argument is negative;
\* (positive, negative) is positive, (negative, negative) is negative and
\* (negative, unknown) is unknown.
C3_SignRule ==
    sgn # None =>
        LET k == Len(node)
            npos == Cardinality({i \in 1..k : node[i].sign.pos})
            nneg == Cardinality({i \in 1..k : node[i].sign.neg})
        IN  /\ sgn[1] <=> (npos >= 1)
            /\ sgn[2] <=> (nneg = k)
            /\ (k = 2 /\ node[1].sign = Positive /\ node[2].sign = Negative)
                  => sgn = <<TRUE, FALSE>>
            /\ (k = 2 /\ node[1].sign = Negative /\ node[2].sign = Negative)
                  => sgn = <<FALSE, TRUE>>
            /\ (k = 2 /\ node[1].sign = Negative /\ node[2].sign = Unknown)
                  => sgn = <<FALSE, FALSE>>

C3_Witness ==
    /\ sgn # None
    /\ Len(node) = 2
    /\ node[1].sign = Positive
    /\ node[2].sign = Negative
    /\ sgn = <<TRUE, FALSE>>

\* C13: under the composition rule and the contract of max_elemwise (convex,
\* not concave, non-decreasing and not non-increasing in every argument), a
\* maximum of k >= 2 arguments is certified convex exactly when every argument
\* is convex (affine included); one argument that is concave and not affine
\* leaves it uncertified as convex.
C13_ConvexIffAllArgsConvex ==
    cert # None =>
        LET k == Len(node)
        IN  /\ k >= 2
            /\ cert.convex <=> \A i \in 1..k : node[i].curv \in {"affine", "convex"}
            /\ (\E i \in 1..k : node[i].curv = "concave") => ~cert.convex

C13_Witness ==
    /\ cert # None
    /\ Len(node) = 3
    /\ node[1].curv = "convex" /\ node[2].curv = "concave" /\ node[3].curv = "affine"
    /\ ~cert.convex

----------------------------------------------------------------------------
(* Claims about Leaf                                                       *)

\* The bounds given to the last operation, when it was a construction that
\* reached the bounds setter (no flag, no sparsity, no value) or a bounds
\* assignment.
ReachedSetter ==
    \/ op = "set_bounds"
    \/ op = "init" /\ arg.flags = {} /\ arg.sparsity = None /\ arg.val = None

ShapeOfCall == IF op = "init" THEN arg.shape ELSE leaf.shape

IsPairOfShape(b, shape) ==
    /\ b \notin {None, NotAList}
    /\ \A x \in {b.lower, b.upper} :
          x.form = "scalar" \/ (x.form = "array" /\ x.shape = shape)

Entry(x, i) == IF x.form = "scalar" THEN x.v ELSE x.e[i]

HasNaN(x) ==
    \/ x.form = "scalar" /\ x.v = NaN
    \/ x.form = "array" /\ \E i \in DOMAIN x.e : x.e[i] = NaN

\* a < b for numbers that are not NaN
Below(a, b) ==
    \/ a = NInf /\ b # NInf
    \/ b = PInf /\ a # PInf
    \/ a.t = "fin" /\ b.t = "fin" /\ a.re < b.re

\* C4 (as stated): a leaf with nonneg=True and nonpos=True and nothing else is
\* accepted, and a leaf with nonneg=True and PSD=True fails with the "more
\* than one special attribute" error.
C4_BothSignsAccepted ==
    (op = "init" /\ arg.sparsity = None /\ arg.bvalue = None /\ arg.val = None) =>
        /\ arg.flags = {"nonneg", "nonpos"} => (err = "none" /\ leaf # None)
        /\ (arg.flags = {"nonneg", "PSD"} /\ arg.shape = MatShape) => err = MoreThanOne

\* C5 (as stated): bounds with a NaN endpoint are rejected in every form, so
\* the stored bounds never contain NaN.
C5_NaNBoundsRejected ==
    /\ bounds # None =>
          \A k \in 1..2 : \A i \in DOMAIN bounds[k] : bounds[k][i] # NaN
    /\ (ReachedSetter /\ IsPairOfShape(arg.bvalue, ShapeOfCall)
          /\ (HasNaN(arg.bvalue.lower) \/ HasNaN(arg.bvalue.upper)))
       => err # "none"

\* C6: NaN-free bounds, a list of two scalars and/or arrays of the leaf's
\* shape, are rejected exactly when at some position upper < lower or both
\* endpoints are -inf or both are +inf; accepted bounds are stored broadcast
\* to the shape. [5, 3] and [-inf, -inf] fail, [3, 3] succeeds.
C6_BoundsAcceptedIff ==
    (ReachedSetter /\ IsPairOfShape(arg.bvalue, ShapeOfCall)
       /\ ~HasNaN(arg.bvalue.lower) /\ ~HasNaN(arg.bvalue.upper)) =>
        LET lo == arg.bvalue.lower
            up == arg.bvalue.upper
            n == IF Len(ShapeOfCall) = 1 THEN ShapeOfCall[1]
                 ELSE ShapeOfCall[1] * ShapeOfCall[2]
            bad == \E i \in 1..n :
                      \/ Below(Entry(up, i), Entry(lo, i))
                      \/ Entry(lo, i) = NInf /\ Entry(up, i) = NInf
                      \/ Entry(lo, i) = PInf /\ Entry(up, i) = PInf
        IN  /\ bad <=> err # "none"
            /\ ~bad => bounds = <<[i \in 1..n |-> Entry(lo, i)],
                                  [i \in 1..n |-> Entry(up, i)]>>
            /\ (lo = ScalarEnd(Fin(5, 0)) /\ up = ScalarEnd(Fin(3, 0))) => err # "none"
            /\ (lo = ScalarEnd(NInf) /\ up = ScalarEnd(NInf)) => err # "none"
            /\ (lo = ScalarEnd(Fin(3, 0)) /\ up = ScalarEnd(Fin(3, 0))) => err = "none"

C6_Witness ==
    /\ op = "set_bounds"
    /\ Attr(leaf, "nonneg")
    /\ arg.bvalue = ListOf(ScalarEnd(Fin(3, 0)),
                           ArrayEnd(VecShape, <<PInf, Fin(3, 0)>>))
    /\ err = "none"
    /\ bounds = <<<<Fin(3, 0), Fin(3, 0)>>, <<PInf, Fin(3, 0)>>>>

\* C7 (as stated): for every attribute kind and every value v of the leaf's
\* shape, validating project(v) succeeds.
C7_ProjectionValidates ==
    (op = "assign_projected" /\ arg.shape = leaf.shape
       /\ ~Raised(project(leaf, arg))) => err = "none"

\* C8 (as stated): the stored value is None or a value that passed
\* validation: it has the leaf's shape and is within the tolerance of its
\* projection.
C8_StoredValueIsValid ==
    (leaf # None /\ value # None) =>
        /\ value.shape = leaf.shape
        /\ ~Raised(validate_value(leaf, value))

\* C9: a successful value assignment stores the value it was given, converted
\* to an array, and not the projection of that value.
C9_OriginalValueKept ==
    (op = "set_value" /\ err = "none") =>
        IF arg = None THEN value = None
        ELSE /\ value.shape = arg.shape
             /\ value.e = arg.e
             /\ value.ty = IF arg.ty = "list" THEN "ndarray" ELSE arg.ty

C9_Witness ==
    /\ op = "set_value"
    /\ err = "none"
    /\ Attr(leaf, "nonneg")
    /\ value # None
    /\ value = arg
    /\ value.e[1] = Fin(-GENERAL_PROJECTION_TOL, 0)
    /\ project(leaf, value).e[1] = Zero

\* C14 (as stated): a constructor call with exactly one flag of the special
\* set, the shape that flag needs, and a valid bounds pair or a sparsity
\* pattern succeeds; the "more than one special attribute" error is raised
\* only when more than one flag is set, boolean with integer counting as one.
C14_BoundsAndSparsityNotCounted ==
    (op = "init" /\ arg.val = None) =>
        LET nflags == IF {"boolean", "integer"} \subseteq arg.flags
                      THEN Cardinality(arg.flags) - 1
                      ELSE Cardinality(arg.flags)
        IN  /\ (nflags = 1
                  /\ (arg.flags \cap SquareKinds # {} => arg.shape = MatShape)
                  /\ (\/ arg.bvalue = ValidBounds /\ arg.sparsity = None
                      \/ arg.bvalue = None /\ arg.sparsity = SomeSparsity))
               => (err = "none" /\ leaf # None)
            /\ (err = MoreThanOne /\ arg.bvalue \in {None, ValidBounds}) => nflags > 1

\* C15: a value assignment that raises, after any sequence of earlier
\* operations, leaves the stored value, the attributes and shape, and the
\* bounds of the leaf exactly as they were.
C15_FailedAssignmentChangesNothing ==
    [][(op' = "set_value" /\ err' # "none") =>
          (value' = value /\ leaf' = leaf /\ bounds' = bounds)]_vars

C15_Witness ==
    /\ op = "set_value"
    /\ err # "none"
    /\ leaf # None
    /\ bounds # None
    /\ value # None
    /\ value.e[1] = Fin(-GENERAL_PROJECTION_TOL, 0)

----------------------------------------------------------------------------
(* Claims about is_psd_within_tol                                          *)

\* C10 (as stated): whenever the eigenvalue solver fails to converge, in the
\* first estimation or in the retry, the failure that reaches the caller is
\* the non-convergence error carrying the note that suggests psd_wrap.
C10_NonConvergenceCarriesNote ==
    (psd.pc = "done" /\ psd.exc # None /\ psd.exc.type = "ArpackNoConvergence") =>
        /\ psd.exc.note
        /\ psd.result = None

\* C11: in every run of is_psd_within_tol the estimator is invoked at most
\* twice; it is not invoked when the Gershgorin check succeeds, and the result
\* is then True; the first invocation uses the shift -tol; the second happens
\* only after the first returned NaN, and then always, with the shift moved by
\* the machine epsilon; a NaN from the second is not retried and the result
\* is then False.
C11_AtMostTwoEstimates ==
    (psd.pc # "idle" /\ psd.ty \in {"ndarray", "spmatrix"}) =>
        LET n == Len(psd.calls)
        IN  /\ n <= 2
            /\ gershgorin_psd_check(psd.A, psd.tol) =>
                  (n = 0 /\ psd.pc = "done" /\ psd.result = TRUE /\ psd.exc = None)
            /\ n >= 1 => (psd.calls[1].tol = psd.tol /\ psd.calls[1].eps = 0)
            /\ n = 2 => /\ psd.calls[1].out = "nan"
                        /\ psd.calls[2].tol = psd.tol
                        /\ psd.calls[2].eps = 1
                        /\ psd.pc = "done"
            /\ (psd.pc = "done" /\ n = 1) => psd.calls[1].out # "nan"
            /\ (n = 2 /\ psd.calls[2].out = "nan") =>
                  (psd.result = FALSE /\ psd.exc = None)

C11_Witness ==
    /\ psd.pc = "done"
    /\ Len(psd.calls) = 2
    /\ psd.calls[2].out = "nan"
    /\ psd.result = FALSE
    /\ MinEigAtLeast(psd.A, psd.tol)

\* C16: for every symmetric A and tol >= 0, gershgorin_psd_check(A, tol) is
\* True exactly when no diagonal entry is below -tol and every diagonal entry
\* minus the sum of the absolute off-diagonal entries of its row is >= -tol;
\* whenever it is True every eigenvalue of A is >= -tol, so a run of
\* is_psd_within_tol that returns True without calling the estimator was
\* given a matrix that is PSD within tol.
C16_GershgorinSound ==
    (psd.pc # "idle" /\ psd.ty \in {"ndarray", "spmatrix"}) =>
        LET A == psd.A
            tol == psd.tol
            off(i) == SumOver([j \in DOMAIN A |-> IF j = i THEN 0
                                                   ELSE IF A[i][j] < 0 THEN -A[i][j]
                                                   ELSE A[i][j]], DOMAIN A)
            rows_ok == /\ \A i \in DOMAIN A : A[i][i] >= -tol
                       /\ \A i \in DOMAIN A : A[i][i] - off(i) >= -tol
        IN  /\ gershgorin_psd_check(A, tol) <=> rows_ok
            /\ gershgorin_psd_check(A, tol) => MinEigAtLeast(A, tol)
            /\ (psd.pc = "done" /\ psd.calls = <<>> /\ psd.result = TRUE)
                  => MinEigAtLeast(A, tol)

C16_Witness ==
    /\ psd.pc = "done"
    /\ psd.calls = <<>>
    /\ psd.result = TRUE
    /\ psd.A[1][2] = -1
    /\ psd.A[2][3] = 1
    /\ psd.tol = 1

----------------------------------------------------------------------------
(* Claims about onb_for_orthogonal_complement                              *)

\* C12: onb_for_orthogonal_complement(V) fails its assertion exactly when the
\* numerical rank of V equals its number of rows, as for every full-rank
\* square V, and then neither the projector nor the second basis is computed;
\* when the rank is smaller the assertion passes and the run goes on to
\* return a basis of n - rank columns.
C12_AssertFailsAtFullRowRank ==
    onb.pc # "idle" =>
        LET m == Len(onb.V[1])
            full == count_nonzero_rows(onb.V) = onb.n
        IN  /\ onb.n = Len(onb.V)
            /\ full <=> onb.exc = AssertionError
            /\ full => (onb.pc = "done" /\ onb.P = None /\ onb.Q2 = None)
            /\ ~full => onb.exc = None
            /\ (m = onb.n /\ Det(onb.V) # 0) => onb.exc = AssertionError
            /\ (onb.pc = "done" /\ ~full) =>
                  (onb.P # None /\ onb.Q2 = [rows |-> onb.n, cols |-> onb.n - onb.rank])

C12_Witness ==
    /\ onb.pc = "done"
    /\ onb.V = <<<<1, 1>>, <<-1, 1>>>>
    /\ onb.exc = AssertionError
    /\ onb.P = None

====
